---- MODULE Spec2Model ----
(***************************************************************************)
(* A model of the c-VEP speller: the frame loop of Speller.run with its    *)
(* flip-bound markers (src/speller.py) and the control client of the LSL   *)
(* recorder (src/lsl_recorder.py).                                         *)
(*                                                                         *)
(* Speller.run is modelled statement by statement: pc is the position of   *)
(* the call, i the frame index, j the position in the iteration over the   *)
(* codes mapping.  drawn is the back buffer (draw() calls since the last   *)
(* flip), front what the last flip put on the screen, toCall the callbacks *)
(* registered with callOnFlip, outlet the samples pushed on the marker     *)
(* stream since the entry of the current call.                             *)
(*                                                                         *)
(* The two scripts of the repository, src/experiment.py and the            *)
(* "__main__" block of src/lsl_recorder.py, are sequences of calls: script *)
(* is the position of the running script, and a call made while a script   *)
(* runs is the call the script makes at that position.                     *)
(***************************************************************************)
EXTENDS Integers, Sequences, FiniteSets, TLC

VARIABLES
    keys,        \* Speller.keys: name -> [images, pos, size, autoDraw]
    winOpen,     \* the window exists (FALSE after Window.close())
    keyBuffer,   \* a quit key waits in psychopy's event buffer
    toCall,      \* Window._toCall: samples to push at the next flip
    outlet,      \* samples pushed on the marker stream, with the moment
    drawn,       \* back buffer: <<name, state>> drawn since the last flip
    front,       \* the last commit: [kind, frame, content]
    pc,          \* "idle", "head", "draw", "stop", "restore", "done",
                 \* "raised", "exited"
    codes,       \* run(): the codes mapping, in iteration order
    duration,    \* run(): the duration in milliseconds, or NoDuration
    start_marker,\* run(): the start marker
    stop_marker, \* run(): the stop marker
    n_frames,    \* run(): the number of frames
    i,           \* run(): the frame index
    j,           \* run(): the position in codes.items()
    nPres,       \* presentation commits performed by the current call
    nFinal,      \* final (restoring) commits performed by the current call
    aborted,     \* the frame at whose poll the quit key was seen, or -1
    result,      \* how the last call ended
    sincePress,  \* presentation commits of the call since the quit key was
                 \* pressed, -1 when none was
    sock,        \* LSLRecorder.socket: "none", "open" or "broken"
    sent,        \* the lines written to the socket
    lastCall,    \* the last recorder call and its arguments
    script       \* the script that runs and the position it is at

spellerVars == <<keys, winOpen, keyBuffer, toCall, outlet, drawn, front, pc,
                 codes, duration, start_marker, stop_marker, n_frames, i, j,
                 nPres, nFinal, aborted, result, sincePress>>
recorderVars == <<sock, sent, lastCall>>
vars == <<keys, winOpen, keyBuffer, toCall, outlet, drawn, front, pc,
          codes, duration, start_marker, stop_marker, n_frames, i, j,
          nPres, nFinal, aborted, result, sincePress, sock, sent, lastCall,
          script>>

----------------------------------------------------------------------------
(* Bounds of the model *)

MaxCodeLen == 2      \* longest code sequence given to run()
MaxLog == 1          \* samples logged by the caller between two runs
MaxSent == 2         \* lines written to the recorder socket
MaxRun == 17         \* largest run number tried besides the listed ones
MaxLines == 4        \* lines written to the socket by one recording
MaxPending == 2      \* samples of the caller pushed or waiting for a flip

(* Program constants *)

PollInterval == 60   \* "if i % 60 == 0"
DefaultFr == 60      \* Speller.__init__(fr=60)

----------------------------------------------------------------------------
(* Values *)

None == [tag |-> "None"]
Str(s) == [tag |-> "str", val |-> s]
List(q) == [tag |-> "list", val |-> q]
IntVal(n) == [tag |-> "int", val |-> n]

NameOrder == <<"A", "B">>
Names == {NameOrder[k] : k \in 1..Len(NameOrder)}

DefaultImages == <<"black.png", "white.png">>
KeyColorImages == <<"black", "white", "green">>
ImageLists == {DefaultImages, KeyColorImages}
Positions == {1}
Sizes == {1}

NoDuration == -1
Durations == {NoDuration, 10, 25, 100}

SeqsUpTo(S, n) == UNION {[1..m -> S] : m \in 0..n}

----------------------------------------------------------------------------
(* Inputs of run() *)

StartMarker == Str("start_trial")
StopMarker == Str("stop_trial")

\* code sequences: every binary sequence up to MaxCodeLen, the highlight
\* [2], an empty one, and sequences with a state no key has
BinaryCodes == SeqsUpTo({0, 1}, MaxCodeLen) \ {<< >>}
OtherCodes == {<<2>>, <<0, 3>>, <<-1>>, << >>}
ExampleCodes == {<<[name |-> "A", code |-> <<0, 1>>],
                   [name |-> "B", code |-> <<1, 0, 0>>]>>,
                 <<[name |-> "B", code |-> <<2>>]>>}
CodeLists == BinaryCodes \cup OtherCodes

\* a codes mapping is a dict: distinct names, in insertion order
CodesMaps ==
    {<<[name |-> a, code |-> c]>> : a \in Names, c \in CodeLists}
    \cup {<<[name |-> ab[1], code |-> c], [name |-> ab[2], code |-> e]>> :
            ab \in {p \in Names \X Names : p[1] # p[2]},
            c \in CodeLists, e \in CodeLists}

\* the calls of run() tried: every codes mapping without a duration and
\* with one of 0.1 s, and the example mappings with every duration and
\* every choice of markers
RunInputs ==
    (CodesMaps \X {NoDuration, 100} \X {StartMarker} \X {StopMarker})
    \cup (ExampleCodes \X Durations \X {None, StartMarker}
            \X {None, StopMarker})

LongDuration == 1017
LongInputs ==
    ExampleCodes \X {LongDuration} \X {None, StartMarker} \X {None, StopMarker}

----------------------------------------------------------------------------
(* Helpers *)

fr == DefaultFr      \* Speller.fr

\* the list index Python uses for keys[name][idx], -1 when IndexError
PyIndex(idx, n) ==
    IF idx >= 0 /\ idx < n THEN idx
    ELSE IF idx < 0 /\ idx >= -n THEN idx + n
    ELSE -1

\* a code that stays on its last state instead of repeating
CodeStateNoWrap(code, frame) ==
    code[IF frame < Len(code) THEN frame + 1 ELSE Len(code)]

\* "code[i % len(code)]" for a code that is not empty
CodeState(code, frame) == code[(frame % Len(code)) + 1]

\* the sample log() pushes for a marker that is not None
Sample(marker) == IF marker.tag = "list" THEN marker.val ELSE <<marker.val>>

\* a stream with two channels
ChannelCountTwo == 1 + 1

\* StreamInfo(..., channel_count=1, ...)
ChannelCount == 1

\* StreamOutlet.push_sample takes a sample with one value for each channel
\* and raises ValueError for any other
Fits(sample) == Len(sample) = ChannelCount

\* a window that draws state 0 of every key at every flip
AutoDrawnAll(ks) ==
    LET on == SelectSeq(NameOrder, LAMBDA a : a \in DOMAIN ks)
    IN [k \in 1..Len(on) |-> <<on[k], 0>>]

\* the stimuli the window draws by itself at a flip (autoDraw), state 0
AutoDrawn(ks) ==
    LET on == SelectSeq(NameOrder, LAMBDA a : a \in DOMAIN ks /\ ks[a].autoDraw)
    IN [k \in 1..Len(on) |-> <<on[k], 0>>]

\* a run that leaves the keys as they are
SetAutoDrawKeep(ks, b) == ks

SetAutoDraw(ks, b) ==
    [a \in DOMAIN ks |-> [ks[a] EXCEPT !.autoDraw = b]]

\* a flip calls the callbacks of callOnFlip in order, after the swap: the
\* first whose sample does not fit raises ValueError out of the flip
FlipRaises(calls) == \E k \in 1..Len(calls) : ~Fits(calls[k])

Runnable(calls) ==
    IF FlipRaises(calls)
    THEN SubSeq(calls, 1,
                (CHOOSE k \in 1..Len(calls) :
                    /\ ~Fits(calls[k])
                    /\ \A m \in 1..(k - 1) : Fits(calls[m])) - 1)
    ELSE calls

Pushes(calls, at, frame, n) ==
    [k \in 1..Len(Runnable(calls)) |->
        [sample |-> calls[k], at |-> at, frame |-> frame, n |-> n]]

\* the callbacks left after a flip: "del self._toCall[:]" is not reached
\* when one of them raises
LeftToCall(calls) == IF FlipRaises(calls) THEN calls ELSE << >>

\* a log() that does not look for None and pushes it as any other value
LogResultAlways(marker, on_flip, calls, out, n) ==
    LET sample == IF marker = None THEN <<"None">> ELSE Sample(marker)
    IN IF on_flip
       THEN [toCall |-> Append(calls, sample), outlet |-> out, ok |-> TRUE]
       ELSE IF Fits(sample)
       THEN [toCall |-> calls,
             outlet |-> Append(out, [sample |-> sample, at |-> "call",
                                      frame |-> -1, n |-> n]),
             ok |-> TRUE]
       ELSE [toCall |-> calls, outlet |-> out, ok |-> FALSE]

\* Speller.log: what it makes of the callbacks and of the stream; n is
\* the number of presentation commits at the time of the call
LogResult(marker, on_flip, calls, out, n) ==
    IF marker = None THEN [toCall |-> calls, outlet |-> out, ok |-> TRUE]
    ELSE IF on_flip
         THEN [toCall |-> Append(calls, Sample(marker)), outlet |-> out,
               ok |-> TRUE]
         ELSE IF Fits(Sample(marker))
         THEN [toCall |-> calls,
               outlet |-> Append(out, [sample |-> Sample(marker), at |-> "call",
                                        frame |-> -1, n |-> n]),
               ok |-> TRUE]
         ELSE [toCall |-> calls, outlet |-> out, ok |-> FALSE]

NoFront == [kind |-> "none", frame |-> -1, content |-> << >>]

----------------------------------------------------------------------------
(* The scripts *)

Call(op, args) == [op |-> op, args |-> args]

\* "highlights[key] = [0]" for every key
Highlights ==
    [k \in 1..Len(NameOrder) |-> [name |-> NameOrder[k], code |-> <<0>>]]

\* "highlights[target_key] = [2]"
Cue(target) ==
    [k \in 1..Len(NameOrder) |->
        [name |-> NameOrder[k],
         code |-> IF NameOrder[k] = target THEN <<2>> ELSE <<0>>]]

\* the codes of the stimulation: one binary sequence for each key
Stimuli ==
    [k \in 1..Len(NameOrder) |->
        [name |-> NameOrder[k], code |-> IF k % 2 = 1 THEN <<0, 1>> ELSE <<1, 0>>]]

StartRunTime == 5000  \* "speller.run(highlights, duration=5.0)"
CueTime == 800        \* CUE_TIME = 0.8
TrialTime == 4200     \* TRIAL_TIME = 4.2
ItiTime == 500        \* ITI_TIME = 0.5
DemoRun == 4          \* "run=4"

\* the "__main__" block of lsl_recorder.py
DemoProgram ==
    <<Call("connect", {<< >>}),
      Call("set_recorder", {<<"test", "02", "03", IntVal(DemoRun), "test">>}),
      Call("update", {<< >>}),
      Call("start", {<< >>}),
      Call("stop", {<< >>})>>

\* positions of experiment.py a comparison of "out" leads to
CueAt == 17
TeardownAt == 23

\* experiment.py, for a speller of the keys in NameOrder.  The dialog gives
\* subject, session and run: run is the string "001" of the dialog's
\* default, or an integer if the dialog converts what was typed.
ExperimentProgram ==
    <<Call("set_field_text", {<< >>}),
      Call("wait_key", {<< >>}),
      Call("add_key", {<<"A", KeyColorImages, 1, 1>>}),
      Call("add_key", {<<"B", KeyColorImages, 1, 1>>}),
      Call("set_field_text", {<< >>}),
      Call("connect", {<< >>}),
      Call("set_recorder", {<<"cvep", "01", "01", r, "cvep">> :
                               r \in {Str("001"), IntVal(1)}}),
      Call("update", {<< >>}),
      Call("start", {<< >>}),
      Call("log", {<<Str("python_version"), FALSE>>}),
      Call("log", {<<Str("psychopy_version"), FALSE>>}),
      Call("log", {<<Str("settings"), FALSE>>}),
      Call("log", {<<List(<<"start_run">>), FALSE>>}),
      Call("set_field_text", {<< >>}),
      Call("run", {<<Highlights, StartRunTime, None, None>>}),
      Call("return", {<< >>}),
      Call("run", {<<Cue(a), CueTime, Str("start_cue"), Str("stop_cue")>> :
                      a \in Names}),
      Call("check_out", {19}),
      Call("run", {<<Stimuli, TrialTime, Str("start_trial"),
                     Str("stop_trial")>>}),
      Call("check_out", {21}),
      Call("run", {<<Highlights, ItiTime, Str("start_inter_trial"),
                     Str("stop_inter_trial")>>}),
      Call("check_out", {CueAt, TeardownAt}),
      Call("log", {<<List(<<"stop_run">>), FALSE>>}),
      Call("set_field_text", {<< >>}),
      Call("run", {<<Highlights, StartRunTime, None, None>>}),
      Call("return", {<< >>}),
      Call("stop", {<< >>}),
      Call("quit", {<< >>})>>

NoScript == [prog |-> "none", at |-> 0]

Program ==
    IF script.prog = "demo" THEN DemoProgram
    ELSE IF script.prog = "experiment" THEN ExperimentProgram
    ELSE << >>

\* no script runs: the calls come in any order
Free == script.prog = "none"

\* a script has ended: by an exception or an exit, or after its last line
Ended == ~Free /\ (script.at = 0 \/ script.at > Len(Program))

\* the call the script makes next
Entry == Program[script.at]

\* the call op(a) can be made now
Calls(op, a) ==
    \/ Free
    \/ /\ script.at \in 1..Len(Program)
       /\ Entry.op = op
       /\ a \in Entry.args

\* the script goes on with its next line
Advance == script' = IF Free THEN script ELSE [script EXCEPT !.at = @ + 1]

\* an exception that is caught and passed over
HaltIgnored == script' = IF Free THEN script ELSE [script EXCEPT !.at = @ + 1]

\* an exception nothing catches, or the exit of the process, ends the script
Halt == script' = IF Free THEN script ELSE [script EXCEPT !.at = 0]

----------------------------------------------------------------------------
(* Speller *)

\* the state after the constructors: no key, an open window, no connection
Constructed ==
    /\ keys = << >>
    /\ winOpen = TRUE
    /\ keyBuffer = FALSE
    /\ toCall = << >>
    /\ outlet = << >>
    /\ drawn = << >>
    /\ front = NoFront
    /\ pc = "idle"
    /\ codes = << >>
    /\ duration = NoDuration
    /\ start_marker = None
    /\ stop_marker = None
    /\ n_frames = 0
    /\ i = 0
    /\ j = 0
    /\ nPres = 0
    /\ nFinal = 0
    /\ aborted = -1
    /\ result = "none"
    /\ sincePress = -1
    /\ sock = "none"
    /\ sent = << >>
    /\ lastCall = [op |-> "none"]

Init == Constructed /\ script = NoScript

runLocals == <<codes, duration, start_marker, stop_marker, n_frames, i, j,
               aborted>>

\* an add_key that replaces a key of the same name
AddKeyOverwrite(name, images, pos, size) ==
    /\ pc = "idle"
    /\ Calls("add_key", <<name, images, pos, size>>)
    /\ keys' = [a \in DOMAIN keys \cup {name} |->
                    IF a = name
                    THEN [images |-> images, pos |-> pos, size |-> size,
                          autoDraw |-> TRUE]
                    ELSE keys[a]]
    /\ Advance
    /\ UNCHANGED <<winOpen, keyBuffer, toCall, outlet, drawn, front, runLocals,
                   nPres, nFinal, pc, result, sincePress>>
    /\ UNCHANGED recorderVars

\* Speller.add_key
AddKey(name, images, pos, size) ==
    /\ pc = "idle"
    /\ Calls("add_key", <<name, images, pos, size>>)
    /\ IF name \in DOMAIN keys
       THEN /\ pc' = "raised"
            /\ result' = "AssertionError"
            /\ keys' = keys
            /\ Halt
       ELSE /\ keys' = [a \in DOMAIN keys \cup {name} |->
                            IF a = name
                            THEN [images |-> images, pos |-> pos, size |-> size,
                                  autoDraw |-> TRUE]
                            ELSE keys[a]]
            /\ Advance
            /\ UNCHANGED <<pc, result>>
    /\ UNCHANGED <<winOpen, keyBuffer, toCall, outlet, drawn, front, runLocals,
                   nPres, nFinal, sincePress>>
    /\ UNCHANGED recorderVars

\* Speller.log called by a script
Log(marker, on_flip) ==
    /\ pc = "idle"
    /\ Calls("log", <<marker, on_flip>>)
    /\ LET r == LogResult(marker, on_flip, toCall, outlet, nPres)
       IN /\ toCall' = r.toCall
          /\ outlet' = r.outlet
          /\ IF r.ok THEN Advance /\ UNCHANGED <<pc, result>>
             ELSE Halt /\ pc' = "raised" /\ result' = "ValueError"
    /\ UNCHANGED <<keys, winOpen, keyBuffer, drawn, front, runLocals,
                   nPres, nFinal, sincePress>>
    /\ UNCHANGED recorderVars

\* Speller.set_field_text: sets the text and flips (front keeps the
\* commits of run() only)
SetFieldText ==
    /\ pc = "idle"
    /\ Calls("set_field_text", << >>)
    /\ drawn' = << >>
    /\ outlet' = outlet \o Pushes(toCall, "field", -1, nPres)
    /\ toCall' = LeftToCall(toCall)
    /\ IF FlipRaises(toCall)
       THEN Halt /\ pc' = "raised" /\ result' = "ValueError"
       ELSE Advance /\ UNCHANGED <<pc, result>>
    /\ UNCHANGED <<keys, winOpen, keyBuffer, front, runLocals, nPres,
                   nFinal, sincePress>>
    /\ UNCHANGED recorderVars

\* a quit key is pressed: it waits in the event buffer until getKeys.  The
\* only getKeys is at the head of the loop, so a key pressed while a frame
\* is drawn is seen as one pressed before the first draw of that frame.
\* places are the positions of the program at which the key is tried.
PressQuit(places) ==
    /\ pc \in places
    /\ pc = "draw" => j = 1
    /\ ~keyBuffer
    /\ keyBuffer' = TRUE
    /\ sincePress' = 0
    /\ UNCHANGED <<keys, winOpen, toCall, outlet, drawn, front, pc, runLocals,
                   nPres, nFinal, result>>
    /\ UNCHANGED <<recorderVars, script>>

\* a run that lasts as long as its longest code
NFramesLongest(c, d) ==
    IF d = NoDuration
    THEN CHOOSE n \in {Len(c[k].code) : k \in 1..Len(c)} :
            \A k \in 1..Len(c) : Len(c[k].code) <= n
    ELSE (d * fr) \div 1000

\* "n_frames = len(codes[list(codes.keys())[0]])" or
\* "n_frames = int(duration * self.fr)", for a duration of d milliseconds:
\* int() truncates
NFrames(c, d) ==
    IF d = NoDuration THEN Len(c[1].code) ELSE (d * fr) \div 1000

\* Speller.run, up to the loop: n_frames, autoDraw off, log(start_marker)
RunEntry(c, d, sm, em) ==
    /\ pc = "idle"
    /\ Calls("run", <<c, d, sm, em>>)
    /\ codes' = c
    /\ duration' = d
    /\ start_marker' = sm
    /\ stop_marker' = em
    /\ n_frames' = NFrames(c, d)
    /\ keys' = SetAutoDraw(keys, FALSE)
    /\ LET r == LogResult(sm, TRUE, toCall, << >>, 0)
       IN toCall' = r.toCall /\ outlet' = r.outlet
    /\ i' = 0
    /\ j' = 0
    /\ nPres' = 0
    /\ nFinal' = 0
    /\ aborted' = -1
    /\ result' = "running"
    /\ pc' = "head"
    /\ front' = NoFront
    /\ sincePress' = IF keyBuffer THEN 0 ELSE -1
    /\ Advance
    /\ UNCHANGED <<winOpen, keyBuffer, drawn>>
    /\ UNCHANGED recorderVars

\* is_quit(): getKeys finds a quit key
IsQuit == keyBuffer

\* a loop that leaves out the last frame
InLoopShort == i < n_frames - 1

\* "for i in range(n_frames)": there is a frame i
InLoop == i < n_frames

\* a poll at every other multiple of 60
PollFrameRare == i % (2 * PollInterval) = 0

\* "if i % 60 == 0": the frames at which the quit keys are polled
PollFrame == i % PollInterval = 0

\* an abort that leaves the loop with a break instead of quitting
AbortBreak ==
    /\ pc = "head"
    /\ InLoop
    /\ PollFrame
    /\ IsQuit
    /\ aborted' = i
    /\ keyBuffer' = FALSE
    /\ i' = n_frames
    /\ UNCHANGED <<keys, winOpen, toCall, outlet, drawn, front, pc, codes,
                   duration, start_marker, stop_marker, n_frames, j, nPres,
                   nFinal, result, sincePress>>
    /\ UNCHANGED <<recorderVars, script>>

\* "if i % 60 == 0: if self.is_quit(): self.quit()": the window is closed
\* and core.quit() ends the process
Abort ==
    /\ pc = "head"
    /\ InLoop
    /\ PollFrame
    /\ IsQuit
    /\ aborted' = i
    /\ keyBuffer' = FALSE
    /\ winOpen' = FALSE
    /\ pc' = "exited"
    /\ result' = "SystemExit"
    /\ Halt
    /\ UNCHANGED <<keys, toCall, outlet, drawn, front, codes, duration,
                   start_marker, stop_marker, n_frames, i, j, nPres, nFinal,
                   sincePress>>
    /\ UNCHANGED recorderVars

\* the head of the loop when the frame is presented
EnterFrame ==
    /\ pc = "head"
    /\ InLoop
    /\ ~(PollFrame /\ IsQuit)
    /\ pc' = "draw"
    /\ j' = 1
    /\ UNCHANGED <<keys, winOpen, keyBuffer, toCall, outlet, drawn, front, codes,
                   duration, start_marker, stop_marker, n_frames, i, nPres,
                   nFinal, aborted, result, sincePress>>
    /\ UNCHANGED <<recorderVars, script>>

\* "self.keys[name][int(code[i % len(code)])].draw()" for the j-th item
DrawKey ==
    /\ pc = "draw"
    /\ j <= Len(codes)
    /\ LET name == codes[j].name
           code == codes[j].code
       IN IF name \notin DOMAIN keys
          THEN pc' = "raised" /\ result' = "KeyError" /\ Halt
               /\ UNCHANGED <<drawn, j>>
          ELSE IF Len(code) = 0
          THEN pc' = "raised" /\ result' = "ZeroDivisionError" /\ Halt
               /\ UNCHANGED <<drawn, j>>
          ELSE LET idx == PyIndex(CodeState(code, i), Len(keys[name].images))
               IN IF idx = -1
                  THEN pc' = "raised" /\ result' = "IndexError" /\ Halt
                       /\ UNCHANGED <<drawn, j>>
                  ELSE /\ drawn' = Append(drawn, <<name, idx>>)
                       /\ j' = j + 1
                       /\ UNCHANGED <<pc, result, script>>
    /\ UNCHANGED <<keys, winOpen, keyBuffer, toCall, outlet, front, codes,
                   duration, start_marker, stop_marker, n_frames, i, nPres,
                   nFinal, aborted, sincePress>>
    /\ UNCHANGED recorderVars

\* a flip after the first draw of the frame
FlipEarly ==
    /\ pc = "draw"
    /\ j > 1
    /\ front' = [kind |-> "frame", frame |-> i,
                 content |-> drawn \o AutoDrawn(keys)]
    /\ drawn' = << >>
    /\ nPres' = nPres + 1
    /\ sincePress' = IF keyBuffer THEN sincePress + 1 ELSE sincePress
    /\ outlet' = outlet \o Pushes(toCall, "frame", i, nPres + 1)
    /\ toCall' = LeftToCall(toCall)
    /\ IF FlipRaises(toCall)
       THEN pc' = "raised" /\ result' = "ValueError" /\ Halt /\ i' = i
       ELSE pc' = "head" /\ i' = i + 1 /\ UNCHANGED <<result, script>>
    /\ UNCHANGED <<keys, winOpen, keyBuffer, codes, duration, start_marker,
                   stop_marker, n_frames, j, nFinal, aborted>>
    /\ UNCHANGED recorderVars

\* "self.window.flip()" of frame i
Flip ==
    /\ pc = "draw"
    /\ j > Len(codes)
    /\ front' = [kind |-> "frame", frame |-> i,
                 content |-> drawn \o AutoDrawn(keys)]
    /\ drawn' = << >>
    /\ nPres' = nPres + 1
    /\ sincePress' = IF keyBuffer THEN sincePress + 1 ELSE sincePress
    /\ outlet' = outlet \o Pushes(toCall, "frame", i, nPres + 1)
    /\ toCall' = LeftToCall(toCall)
    /\ IF FlipRaises(toCall)
       THEN pc' = "raised" /\ result' = "ValueError" /\ Halt /\ i' = i
       ELSE pc' = "head" /\ i' = i + 1 /\ UNCHANGED <<result, script>>
    /\ UNCHANGED <<keys, winOpen, keyBuffer, codes, duration, start_marker,
                   stop_marker, n_frames, j, nFinal, aborted>>
    /\ UNCHANGED recorderVars

\* a stop marker bound to the last flip
LogStopOnFlip ==
    /\ pc = "head"
    /\ ~InLoop
    /\ LET r == LogResult(stop_marker, TRUE, toCall, outlet, nPres)
       IN toCall' = r.toCall /\ outlet' = r.outlet
    /\ pc' = "stop"
    /\ UNCHANGED <<keys, winOpen, keyBuffer, drawn, front, runLocals, nPres,
                   nFinal, result, sincePress>>
    /\ UNCHANGED <<recorderVars, script>>

\* after the loop: "self.log(stop_marker)"
LogStop ==
    /\ pc = "head"
    /\ ~InLoop
    /\ LET r == LogResult(stop_marker, FALSE, toCall, outlet, nPres)
       IN /\ toCall' = r.toCall
          /\ outlet' = r.outlet
          /\ IF r.ok THEN pc' = "stop" /\ UNCHANGED <<result, script>>
             ELSE pc' = "raised" /\ result' = "ValueError" /\ Halt
    /\ UNCHANGED <<keys, winOpen, keyBuffer, drawn, front, runLocals, nPres,
                   nFinal, sincePress>>
    /\ UNCHANGED <<recorderVars>>

\* "for key in self.keys.values(): key[0].setAutoDraw(True)"
RestoreAutoDraw ==
    /\ pc = "stop"
    /\ keys' = SetAutoDraw(keys, TRUE)
    /\ pc' = "restore"
    /\ UNCHANGED <<winOpen, keyBuffer, toCall, outlet, drawn, front, runLocals,
                   nPres, nFinal, result, sincePress>>
    /\ UNCHANGED <<recorderVars, script>>

\* the last "self.window.flip()", and the end of run(): nothing is
\* returned
FinalFlip ==
    /\ pc = "restore"
    /\ front' = [kind |-> "final", frame |-> -1,
                 content |-> drawn \o AutoDrawn(keys)]
    /\ drawn' = << >>
    /\ nFinal' = nFinal + 1
    /\ outlet' = outlet \o Pushes(toCall, "final", -1, nPres)
    /\ toCall' = LeftToCall(toCall)
    /\ IF FlipRaises(toCall)
       THEN pc' = "raised" /\ result' = "ValueError" /\ Halt
       ELSE pc' = "done" /\ result' = "None" /\ UNCHANGED script
    /\ UNCHANGED <<keys, winOpen, keyBuffer, runLocals, nPres, sincePress>>
    /\ UNCHANGED recorderVars

\* the caller has the result of run(): the locals of the call are gone
ReturnToCaller ==
    /\ pc' = "idle"
    /\ codes' = << >>
    /\ duration' = NoDuration
    /\ start_marker' = None
    /\ stop_marker' = None
    /\ n_frames' = 0
    /\ i' = 0
    /\ j' = 0
    /\ nPres' = 0
    /\ nFinal' = 0
    /\ aborted' = -1
    /\ outlet' = << >>
    /\ front' = NoFront
    /\ result' = "none"
    /\ sincePress' = IF keyBuffer THEN 0 ELSE -1
    /\ UNCHANGED <<keys, winOpen, keyBuffer, toCall, drawn>>
    /\ UNCHANGED recorderVars

\* the caller goes on after a run() whose result it does not use
Return ==
    /\ pc = "done"
    /\ Calls("return", << >>)
    /\ ReturnToCaller
    /\ Advance

\* experiment.py: "out = speller.run(...)" and "if out > 0: break".  The
\* comparison of None with 0 raises TypeError; a status 0 goes on with one
\* of the lines the entry names, any other with the lines after the loop.
CheckOut ==
    /\ pc = "done"
    /\ ~Free
    /\ script.at \in 1..Len(Program)
    /\ Entry.op = "check_out"
    /\ IF result = "None"
       THEN /\ pc' = "raised"
            /\ result' = "TypeError"
            /\ Halt
            /\ UNCHANGED <<keys, winOpen, keyBuffer, toCall, outlet, drawn,
                           front, runLocals, nPres, nFinal, sincePress>>
            /\ UNCHANGED recorderVars
       ELSE /\ ReturnToCaller
            /\ \E k \in (IF result = "0" THEN Entry.args ELSE {TeardownAt}) :
                  script' = [script EXCEPT !.at = k]

\* Speller.wait_key is not in src/speller.py: the script waits until a
\* key is pressed, as main() does with event.waitKeys at this place
WaitKey ==
    /\ pc = "idle"
    /\ ~Free
    /\ Calls("wait_key", << >>)
    /\ Advance
    /\ UNCHANGED <<spellerVars, recorderVars>>

\* Speller.quit called by the caller
Quit ==
    /\ pc = "idle"
    /\ Calls("quit", << >>)
    /\ winOpen' = FALSE
    /\ pc' = "exited"
    /\ result' = "SystemExit"
    /\ Halt
    /\ UNCHANGED <<keys, keyBuffer, toCall, outlet, drawn, front, runLocals,
                   nPres, nFinal, sincePress>>
    /\ UNCHANGED recorderVars

\* the markers the scripts log: a string, the one-element list
\* ["start_run"], and lists of another length
LogMarkers == {None, List(<<"start_run">>)}
OddMarkers == {Str("settings"), List(<<"a", "b">>), List(<< >>)}

RunCall(inputs) == \E r \in inputs : RunEntry(r[1], r[2], r[3], r[4])

\* a caller that logs the markers, at once or bound to the next flip,
\* while fewer than max samples are pushed or wait for a flip
CallerLog(max, markers, flags) ==
    \E m \in markers, f \in flags :
        Len(outlet) + Len(toCall) < max /\ Log(m, f)

Between == {"idle"}
Anytime == {"idle", "head", "draw"}

NextOn(inputs, places) ==
    \/ \E a \in Names, im \in ImageLists, p \in Positions, s \in Sizes :
          AddKey(a, im, p, s)
    \/ CallerLog(MaxLog, LogMarkers, {FALSE})
    \/ SetFieldText
    \/ PressQuit(places)
    \/ RunCall(inputs)
    \/ Abort
    \/ EnterFrame
    \/ DrawKey
    \/ Flip
    \/ LogStop
    \/ RestoreAutoDraw
    \/ FinalFlip
    \/ Return
    \/ Quit

\* short runs of every codes mapping, the quit key pressed between them,
\* the markers of the caller logged at once as main() and experiment.py do
Next == NextOn(RunInputs, Between)

Spec == Init /\ [][Next]_vars

\* runs long enough for the second poll of the quit keys, at frame 60,
\* the quit key pressed at any time
LongNext == NextOn(LongInputs, Anytime)

LongSpec == Init /\ [][LongNext]_vars

\* every kind of marker, logged at once or bound to a flip, by the caller
\* and as the start and the stop marker of a run of one symbol
AllMarkers == LogMarkers \cup OddMarkers

LogInputs ==
    {<<[name |-> "A", code |-> <<0, 1>>]>>} \X {NoDuration}
        \X AllMarkers \X AllMarkers

LogNext ==
    \/ \E im \in ImageLists : AddKey("A", im, 1, 1)
    \/ CallerLog(MaxPending, AllMarkers, BOOLEAN)
    \/ SetFieldText
    \/ RunCall(LogInputs)
    \/ EnterFrame
    \/ DrawKey
    \/ Flip
    \/ LogStop
    \/ RestoreAutoDraw
    \/ FinalFlip
    \/ Return

LogSpec == Init /\ [][LogNext]_vars

\* the registry alone: keys of two positions and two sizes
WidePositions == {1, 2}
WideSizes == {1, 2}

RegistryNext ==
    \/ \E a \in Names, im \in ImageLists, p \in WidePositions, s \in WideSizes :
          AddKey(a, im, p, s)
    \/ CallerLog(MaxLog, LogMarkers, {FALSE})
    \/ SetFieldText

RegistrySpec == Init /\ [][RegistryNext]_vars

----------------------------------------------------------------------------
(* LSLRecorder *)

Roots == {"X"}
Subjects == {"01", "sub"}
Sessions == {"02"}
Tasks == {"cvep"}
\* the run numbers tried, and the string the dialog of experiment.py gives
RunNumbers == (-1..MaxRun) \cup {255, 256, 4095}
RunValues == {IntVal(n) : n \in RunNumbers} \cup {Str("001")}

HexDigits == <<"0", "1", "2", "3", "4", "5", "6", "7", "8", "9",
               "a", "b", "c", "d", "e", "f">>

\* the digits of "%x" % n for n >= 0
RECURSIVE HexOf(_)
HexOf(n) ==
    IF n < 16 THEN <<HexDigits[n + 1]>>
    ELSE HexOf(n \div 16) \o <<HexDigits[(n % 16) + 1]>>

\* the digits of "%d" % n for n >= 0
RECURSIVE DecOf(_)
DecOf(n) ==
    IF n < 10 THEN <<HexDigits[n + 1]>>
    ELSE DecOf(n \div 10) \o <<HexDigits[(n % 10) + 1]>>

\* a run number formatted with %d instead of %x
FormatD(n) == IF n < 0 THEN <<"-">> \o DecOf(-n) ELSE DecOf(n)

\* "%x" % n: a minus sign, then the digits of the absolute value
FormatX(n) == IF n < 0 THEN <<"-">> \o HexOf(-n) ELSE HexOf(n)

\* the message of set_recorder, as the pieces of the format string and
\* the formatted arguments in between
FilenameMsg(root, subject, session, run, task) ==
    <<"filename {root:", root, "} {task:", task, "} {run:">>
    \o FormatX(run)
    \o <<"} {participant:", subject, "} {session:", session, "}\n">>

\* socket.sendall(msg): the line is written, or the write fails
SendAll(msg, ok) ==
    IF ok THEN sent' = Append(sent, msg) /\ sock' = sock
    ELSE sent' = sent /\ sock' = "broken"

\* LSLRecorder.__init__: socket.create_connection
Connect(ok) ==
    /\ sock = "none"
    /\ Calls("connect", << >>)
    /\ sock' = IF ok THEN "open" ELSE "none"
    /\ lastCall' = [op |-> "connect",
                    ret |-> IF ok THEN "object" ELSE "OSError"]
    /\ IF ok THEN Advance ELSE Halt
    /\ UNCHANGED sent
    /\ UNCHANGED spellerVars

\* LSLRecorder.set_recorder
SetRecorder(root, subject, session, run, task, ok) ==
    /\ sock # "none"
    /\ Calls("set_recorder", <<root, subject, session, run, task>>)
    /\ IF run.tag # "int"
       THEN /\ lastCall' = [op |-> "set_recorder", root |-> root,
                            subject |-> subject, session |-> session,
                            run |-> run, task |-> task, before |-> Len(sent),
                            ret |-> "TypeError"]
            /\ Halt
            /\ UNCHANGED <<sock, sent>>
       ELSE /\ IF ok /\ sock = "open" THEN Advance ELSE Halt
            /\ SendAll(FilenameMsg(root, subject, session, run.val, task),
                       ok /\ sock = "open")
            /\ lastCall' = [op |-> "set_recorder", root |-> root,
                            subject |-> subject, session |-> session,
                            run |-> run, task |-> task, before |-> Len(sent),
                            ret |-> IF ok /\ sock = "open" THEN "0"
                                    ELSE "OSError"]
    /\ UNCHANGED spellerVars

\* a command that passes over a write that fails
CommandNoRaise(op, word, ok) ==
    /\ sock # "none"
    /\ Calls(op, << >>)
    /\ SendAll(<<word>>, ok /\ sock = "open")
    /\ Advance
    /\ lastCall' = [op |-> op, before |-> Len(sent),
                    ret |-> IF ok /\ sock = "open" THEN "0" ELSE "OSError"]
    /\ UNCHANGED spellerVars

\* update, start and stop: one bare command, then the settle delay
Command(op, word, ok) ==
    /\ sock # "none"
    /\ Calls(op, << >>)
    /\ SendAll(<<word>>, ok /\ sock = "open")
    /\ IF ok /\ sock = "open" THEN Advance ELSE Halt
    /\ lastCall' = [op |-> op, before |-> Len(sent),
                    ret |-> IF ok /\ sock = "open" THEN "0" ELSE "OSError"]
    /\ UNCHANGED spellerVars

\* an update that sends the line of start
UpdateSendsStart(ok) == Command("update", "start\n", ok)

\* LSLRecorder.update
Update(ok) == Command("update", "update\n", ok)

\* a start that sends the line of stop
StartSendsStop(ok) == Command("start", "stop\n", ok)

\* LSLRecorder.start
Start(ok) == Command("start", "start\n", ok)

\* LSLRecorder.stop
Stop(ok) == Command("stop", "stop\n", ok)

\* the calls of a client that has written fewer than max lines
FilenameCall(max, args) ==
    \E c \in args, ok \in BOOLEAN :
        Len(sent) < max /\ SetRecorder(c[1], c[2], c[3], c[4], c[5], ok)

UpdateCall(max) == \E ok \in BOOLEAN : Len(sent) < max /\ Update(ok)

StartCall(max) == \E ok \in BOOLEAN : Len(sent) < max /\ Start(ok)

StopCall(max) == \E ok \in BOOLEAN : Len(sent) < max /\ Stop(ok)

\* the client with every run value, for a few lines
RecorderNext ==
    \/ \E ok \in BOOLEAN : Connect(ok)
    \/ FilenameCall(MaxSent, Roots \X Subjects \X Sessions \X RunValues \X Tasks)
    \/ UpdateCall(MaxSent)
    \/ StartCall(MaxSent)
    \/ StopCall(MaxSent)

RecorderSpec == Init /\ [][RecorderNext]_vars

----------------------------------------------------------------------------
(* The scripts of the repository, line by line *)

\* the arguments the script gives to op at its position
ArgsOf(op) ==
    IF script.at \in 1..Len(Program) /\ Entry.op = op THEN Entry.args ELSE {}

\* what a caller without a script gives to set_recorder
SessionArgs ==
    {<<"test", "02", "03", r, "test">> : r \in {IntVal(DemoRun), Str("001")}}

\* lsl_recorder.py run as a script, experiment.py, or a caller that makes
\* the calls of the client in any order
ScriptInit ==
    /\ Constructed
    /\ script \in {[prog |-> "demo", at |-> 1],
                   [prog |-> "experiment", at |-> 1], NoScript}

ScriptNext ==
    \/ WaitKey
    \/ \E c \in ArgsOf("add_key") : AddKey(c[1], c[2], c[3], c[4])
    \/ \E c \in ArgsOf("log") : Log(c[1], c[2])
    \/ SetFieldText
    \/ PressQuit(Anytime)
    \/ RunCall(ArgsOf("run"))
    \/ Abort
    \/ EnterFrame
    \/ DrawKey
    \/ Flip
    \/ LogStop
    \/ RestoreAutoDraw
    \/ FinalFlip
    \/ Return
    \/ CheckOut
    \/ \E ok \in BOOLEAN : Connect(ok)
    \/ FilenameCall(MaxLines,
                    IF Free THEN SessionArgs ELSE ArgsOf("set_recorder"))
    \/ UpdateCall(MaxLines)
    \/ StartCall(MaxLines)
    \/ StopCall(MaxLines)

ScriptSpec == ScriptInit /\ [][ScriptNext]_vars

----------------------------------------------------------------------------
(* Properties of Speller.run *)

IsStart(e) == e.sample = <<"start_trial">>
IsStop(e) == e.sample = <<"stop_trial">>
StartPushes == {k \in 1..Len(outlet) : IsStart(outlet[k])}
StopPushes == {k \in 1..Len(outlet) : IsStop(outlet[k])}

\* C1: in every presentation commit, frame i shows each symbol of the codes
\* mapping in the state codes[s][i mod len(codes[s])], whatever the lengths
\* of the other codes are, and the commits of a call are the frames 0, 1, ...
C1_StateFollowsCode ==
    front.kind = "frame" =>
        /\ front.frame = nPres - 1
        /\ \A k \in 1..Len(codes) :
              LET code == codes[k].code
                  v == code[(front.frame % Len(code)) + 1]
              IN v >= 0 => front.content[k] = <<codes[k].name, v>>

\* frame 5 of the example: A = [0, 1] shows 1 and B = [1, 0, 0] shows 0
C1_Witness ==
    /\ front.kind = "frame"
    /\ front.frame = 5
    /\ codes = <<[name |-> "A", code |-> <<0, 1>>],
                 [name |-> "B", code |-> <<1, 0, 0>>]>>
    /\ front.content = <<<<"A", 1>>, <<"B", 0>>>>

\* round(num / den) as Python rounds: halves go to the even integer
RoundHalfEven(num, den) ==
    LET q == num \div den
        r == num % den
    IN IF 2 * r < den THEN q
       ELSE IF 2 * r > den THEN q + 1
       ELSE IF q % 2 = 0 THEN q ELSE q + 1

\* C2: a completed run with a duration d performs round(d x frameRate)
\* presentation commits
C2_CommitsAreRounded ==
    (pc = "done" /\ duration # NoDuration) =>
        nPres = RoundHalfEven(duration * fr, 1000)

\* C3: an abort seen at the poll of frame k comes after exactly k
\* presentation commits and is followed by exactly one final commit
C3_AbortThenFinalCommit ==
    aborted >= 0 => (nPres = aborted /\ nFinal = 1)

\* C4: run returns to its caller with status 0 when it completes and with
\* status 1 when it is aborted, and an abort does not end the process
C4_RunReturnsStatus ==
    /\ pc = "done" => result \in {"0", "1"}
    /\ (pc = "done" /\ aborted = -1) => result = "0"
    /\ aborted >= 0 => (pc = "done" /\ result = "1")

\* C5: the start marker of a call is pushed at the commit of frame 0 only,
\* and exactly once in a call that has returned
C5_StartAtFrameZero ==
    start_marker # None =>
        /\ \A k \in StartPushes :
              outlet[k].at = "frame" /\ outlet[k].frame = 0
        /\ pc = "done" => Cardinality(StartPushes) = 1

\* C6: the stop marker of a call is pushed at most once, only after all
\* n_frames presentation commits, and exactly once when the call completes
C6_StopAfterLastCommit ==
    /\ Cardinality(StopPushes) <= 1
    /\ \A k \in StopPushes : outlet[k].n = n_frames /\ nPres = n_frames
    /\ (pc = "done" /\ stop_marker # None) => Cardinality(StopPushes) = 1

C6_Witness ==
    /\ pc = "done"
    /\ stop_marker # None
    /\ n_frames = 6
    /\ nPres = 6
    /\ StopPushes # {}

\* C7: once an abort is seen at the poll of frame i, frame i and the frames
\* after it are neither drawn nor committed and the stop marker is not
\* pushed
C7_AbortedFrameNotPresented ==
    aborted >= 0 =>
        /\ nPres = aborted
        /\ drawn = << >>
        /\ front.kind = "frame" => front.frame < aborted
        /\ front.kind # "final"
        /\ StopPushes = {}

\* an abort at the second poll, in a run with a stop marker
C7_Witness ==
    /\ aborted = PollInterval
    /\ nPres = PollInterval
    /\ stop_marker # None
    /\ front.frame = PollInterval - 1

\* the state a code asks for is none of the key's images
BadIndex(name, code) ==
    /\ name \in DOMAIN keys
    /\ \E k \in 1..Len(code) :
          code[k] < 0 \/ code[k] >= Len(keys[name].images)

InRun == pc \in {"head", "draw", "done", "raised", "exited"} /\ codes # << >>

\* C8: a call whose codes hold a state index out of range fails before any
\* frame is drawn or committed
C8_BadIndexRejected ==
    (InRun /\ \E k \in 1..Len(codes) : BadIndex(codes[k].name, codes[k].code))
        => (nPres = 0 /\ nFinal = 0 /\ drawn = << >> /\ pc # "done")

\* C9: a call whose codes name a symbol that is not registered fails before
\* any asset is drawn and before any commit
C9_UnknownSymbolRejected ==
    (InRun /\ \E k \in 1..Len(codes) : codes[k].name \notin DOMAIN keys)
        => (nPres = 0 /\ nFinal = 0 /\ drawn = << >> /\ pc # "done")

AllAutoDraw(b) == \A a \in DOMAIN keys : keys[a].autoDraw = b

\* C14: while run() presents its frames, from its entry until the stop
\* marker or the abort, the autoDraw flag of every registered key is off;
\* between the runs, after add_key and after every completed run, it is on
C14_AutoDrawOffWhilePresenting ==
    /\ pc \in {"head", "draw"} => AllAutoDraw(FALSE)
    /\ pc \in {"idle", "done"} => AllAutoDraw(TRUE)

\* the second frame of a run is being drawn, two keys are registered
C14_Witness ==
    /\ pc = "draw"
    /\ i = 1
    /\ DOMAIN keys = {"A", "B"}
    /\ AllAutoDraw(FALSE)

\* the stop marker, if there is one, is the last sample pushed, and it was
\* pushed by the call of log, after the n_frames presentation commits
StopEmitted ==
    stop_marker # None =>
        /\ Len(outlet) >= 1
        /\ IsStop(outlet[Len(outlet)])
        /\ outlet[Len(outlet)].at = "call"
        /\ outlet[Len(outlet)].n = n_frames

\* C15: a run that completes ends in this order: the last presentation
\* commit, the stop marker, autoDraw on for every key, then one final
\* commit that shows state 0 of every registered key; the call has made
\* n_frames + 1 commits
C15_ExitOrder ==
    /\ pc = "stop" =>
          (nPres = n_frames /\ nFinal = 0 /\ AllAutoDraw(FALSE) /\ StopEmitted)
    /\ pc = "restore" =>
          (nPres = n_frames /\ nFinal = 0 /\ AllAutoDraw(TRUE) /\ StopEmitted)
    /\ pc = "done" =>
          /\ nPres + nFinal = n_frames + 1
          /\ nFinal = 1
          /\ front.kind = "final"
          /\ Len(front.content) = Cardinality(DOMAIN keys)
          /\ \A a \in DOMAIN keys :
                \E k \in 1..Len(front.content) : front.content[k] = <<a, 0>>
          /\ \A k \in StopPushes : \A m \in 1..Len(outlet) :
                outlet[m].at = "final" => k < m

\* a run of the key B alone has completed: the final commit shows A and B
C15_Witness ==
    /\ pc = "done"
    /\ codes = <<[name |-> "B", code |-> <<2>>]>>
    /\ n_frames = 6
    /\ nPres = 6
    /\ StopPushes # {}
    /\ front = [kind |-> "final", frame |-> -1,
                content |-> <<<<"A", 0>>, <<"B", 0>>>>]

\* C16: every frame is "draw all symbols, then swap": between two commits
\* each symbol of codes is drawn exactly once, in the order of codes, the
\* draws of frame i come before its commit, nothing is drawn between a
\* commit and the next frame, and each frame is committed exactly once
C16_DrawAllThenSwap ==
    /\ pc = "draw" =>
          /\ nPres = i
          /\ Len(drawn) = j - 1
          /\ \A k \in 1..Len(drawn) : drawn[k][1] = codes[k].name
    /\ pc = "head" => (nPres = i /\ drawn = << >>)
    /\ pc \in {"idle", "stop", "restore", "done", "exited"} => drawn = << >>
    /\ front.kind = "frame" =>
          /\ Len(front.content) = Len(codes)
          /\ \A k \in 1..Len(codes) : front.content[k][1] = codes[k].name

\* two frames of two symbols have been committed
C16_Witness ==
    /\ pc = "head"
    /\ i = 2
    /\ nPres = 2
    /\ Len(codes) = 2
    /\ front.kind = "frame"
    /\ front.frame = 1
    /\ Len(front.content) = 2

\* the last frame of the call at which the quit keys are polled
LastPoll == ((n_frames - 1) \div 60) * 60

\* C17: the quit keys are polled at frame i if and only if i mod 60 = 0,
\* before any draw of that frame.  A key pressed while the frames are
\* presented is acted on at the first frame i with i mod 60 = 0 that
\* follows, so at most 60 presentation commits follow the key press, and a
\* key pressed after the last poll of a run does not abort that run.
C17_PollEverySixty ==
    /\ [](/\ aborted >= 0 =>
                (aborted % 60 = 0 /\ nPres = aborted /\ drawn = << >>)
          /\ (pc = "draw" /\ i % 60 = 0 /\ keyBuffer) => sincePress = 0
          /\ sincePress <= 60
          /\ (pc \in {"stop", "restore", "done"} /\ keyBuffer) =>
                sincePress <= n_frames - LastPoll)
    /\ [][/\ (pc = "head" /\ pc' = "draw" /\ i % 60 = 0) => ~keyBuffer
          /\ (keyBuffer /\ ~keyBuffer') =>
                (pc = "head" /\ i % 60 = 0 /\ aborted' = i)
          /\ (pc = "head" /\ pc' = "draw" /\ i % 60 # 0) =>
                keyBuffer' = keyBuffer
         ]_vars

\* the key was pressed just after the poll of frame 0: frames 0 to 59 are
\* committed and the poll of frame 60 aborts
C17_Witness ==
    /\ aborted = 60
    /\ sincePress = 60
    /\ nPres = 60
    /\ pc = "exited"

\* C18: a run without a duration makes as many presentation commits as
\* the code of the first symbol of codes is long, whatever the lengths of
\* the other codes are: a shorter code repeats, a longer one is cut
C18_DefaultFrameCount ==
    (duration = NoDuration /\ codes # << >>) =>
        /\ nPres <= Len(codes[1].code)
        /\ pc \in {"stop", "restore", "done"} => nPres = Len(codes[1].code)

\* a run of a first code of length 1 and a second of length 2 has
\* completed
C18_Witness ==
    /\ pc = "done"
    /\ duration = NoDuration
    /\ Len(codes) = 2
    /\ Len(codes[1].code) = 1
    /\ Len(codes[2].code) = 2
    /\ nPres = 1

\* C22: in a completed call with a start and a stop marker, the start
\* marker is pushed, and pushed before the stop marker, whatever the number
\* of frames is, 0 included
C22_StartBeforeStop ==
    (pc = "done" /\ start_marker # None /\ stop_marker # None) =>
        /\ StartPushes # {}
        /\ StopPushes # {}
        /\ \A a \in StartPushes, b \in StopPushes : a < b

\* C23: a call of run() that fails for its codes (a symbol that is not
\* registered, a state no key has, an empty code) leaves the speller as it
\* was before the call: autoDraw is on again for every key and no start
\* marker waits for a later flip
C23_FailedRunRestores ==
    (pc = "raised" /\
     result \in {"KeyError", "IndexError", "ZeroDivisionError"}) =>
        /\ AllAutoDraw(TRUE)
        /\ toCall = << >>

----------------------------------------------------------------------------
(* Properties of Speller.log *)

\* C19: every sample that log puts on the stream, at once or at a flip,
\* has exactly one element: a marker that is not a list is wrapped into a
\* list of one element, and no list of another length is pushed
C19_SingleElementSamples ==
    \A k \in 1..Len(outlet) :
        /\ Len(outlet[k].sample) = 1
        /\ outlet[k].sample \in {<<"settings">>, <<"start_run">>}

\* the string "settings" was logged at once and the list ["start_run"]
\* bound to a flip: both are on the stream as samples of one element
C19_Witness ==
    /\ Len(outlet) = 2
    /\ outlet[1].sample = <<"settings">>
    /\ outlet[1].at = "call"
    /\ outlet[2].sample = <<"start_run">>
    /\ outlet[2].at = "field"

----------------------------------------------------------------------------
(* Properties of the registry of keys *)

\* C13: add_key with a name that is registered fails with an
\* AssertionError and leaves the registry as it was: the key keeps its
\* images, position and size, and no other key changes
C13_DuplicateKeyRejected ==
    [][/\ \A a \in DOMAIN keys : a \in DOMAIN keys' /\ keys'[a] = keys[a]
       /\ \A a \in Names, im \in ImageLists, p \in WidePositions,
             s \in WideSizes :
             (a \in DOMAIN keys /\ AddKey(a, im, p, s)) =>
                 (pc' = "raised" /\ result' = "AssertionError" /\ keys' = keys)
      ]_vars

\* a second add_key("A") has failed: A keeps its first images, position
\* and size, B is as it was
C13_Witness ==
    /\ pc = "raised"
    /\ result = "AssertionError"
    /\ DOMAIN keys = {"A", "B"}
    /\ keys["A"] = [images |-> DefaultImages, pos |-> 1, size |-> 2,
                    autoDraw |-> TRUE]
    /\ keys["B"] = [images |-> KeyColorImages, pos |-> 2, size |-> 1,
                    autoDraw |-> TRUE]

----------------------------------------------------------------------------
(* Properties of LSLRecorder *)

LineKind(line) ==
    IF line[1] = "filename {root:" THEN "filename"
    ELSE IF line = <<"update\n">> THEN "update"
    ELSE IF line = <<"start\n">> THEN "start"
    ELSE IF line = <<"stop\n">> THEN "stop"
    ELSE "other"

Kinds == [k \in 1..Len(sent) |-> LineKind(sent[k])]

\* a line of kind a was sent before the k-th line
SentBefore(a, k) == \E m \in 1..(k - 1) : Kinds[m] = a

\* the lines follow the order filename, start, stop, with update only
\* between filename and start
InOrder ==
    \A k \in 1..Len(sent) :
        /\ Kinds[k] = "start" => SentBefore("filename", k)
        /\ Kinds[k] = "stop" => SentBefore("start", k)
        /\ Kinds[k] = "update" =>
              (SentBefore("filename", k) /\ ~SentBefore("start", k))

\* C11 as stated: over any sequence of client calls, "start" is sent only
\* after "filename", "stop" only after "start", "update" only while
\* Configured, and no line is sent before the connection is open
C11_ClientFollowsStates ==
    /\ sent # << >> => sock # "none"
    /\ InOrder

\* C11 amended: no line is sent before the connection is open, and the
\* order of the lines is kept by the callers of the repository,
\* experiment.py and the __main__ block of lsl_recorder.py; the client
\* itself sends the line of start(), stop() or update() in any state
C11_CallersKeepOrder ==
    /\ sent # << >> => sock # "none"
    /\ ~Free => InOrder

\* the __main__ block has made its four calls
C11_Witness ==
    /\ script.prog = "demo"
    /\ Ended
    /\ Kinds = <<"filename", "update", "start", "stop">>

LowerHex == <<"0", "1", "2", "3", "4", "5", "6", "7", "8", "9",
              "a", "b", "c", "d", "e", "f">>
IsLowerHex(d) == \E k \in 1..16 : LowerHex[k] = d
HexDigitValue(d) == (CHOOSE k \in 1..16 : LowerHex[k] = d) - 1

\* the number a sequence of hexadecimal digits stands for
RECURSIVE HexValue(_)
HexValue(ds) ==
    IF Len(ds) = 0 THEN 0
    ELSE 16 * HexValue(SubSeq(ds, 1, Len(ds) - 1)) + HexDigitValue(ds[Len(ds)])

\* ds is the hexadecimal numeral of n: lowercase digits, no prefix, no
\* leading zero, a minus sign for a negative number
IsHexNumeral(ds, n) ==
    LET digits == IF n < 0 THEN Tail(ds) ELSE ds
    IN /\ Len(ds) >= 1
       /\ n < 0 => ds[1] = "-"
       /\ Len(digits) >= 1
       /\ \A k \in 1..Len(digits) : IsLowerHex(digits[k])
       /\ Len(digits) > 1 => digits[1] # "0"
       /\ HexValue(digits) = (IF n < 0 THEN -n ELSE n)

\* C10: set_recorder with an integer run sends exactly one line,
\* filename {root:R} {task:T} {run:H} {participant:P} {session:S}\n, with
\* the strings as given and H the lowercase hexadecimal numeral of run
C10_FilenameLine ==
    (lastCall.op = "set_recorder" /\ lastCall.ret = "0") =>
        /\ Len(sent) = lastCall.before + 1
        /\ LET line == sent[Len(sent)]
               n == Len(line)
               run == lastCall.run.val
           IN /\ n >= 11
              /\ SubSeq(line, 1, 5) = <<"filename {root:", lastCall.root,
                                        "} {task:", lastCall.task, "} {run:">>
              /\ SubSeq(line, n - 4, n) = <<"} {participant:", lastCall.subject,
                                            "} {session:", lastCall.session,
                                            "}\n">>
              /\ IsHexNumeral(SubSeq(line, 6, n - 5), run)
              /\ run = 3 => SubSeq(line, 6, n - 5) = <<"3">>
              /\ run = 10 => SubSeq(line, 6, n - 5) = <<"a">>
              /\ run = 255 => SubSeq(line, 6, n - 5) = <<"f", "f">>

\* set_recorder(root="X", subject="01", session="02", run=255, task="cvep")
C10_Witness ==
    /\ lastCall.op = "set_recorder"
    /\ lastCall.ret = "0"
    /\ lastCall.run = IntVal(255)
    /\ sent[Len(sent)] = <<"filename {root:", "X", "} {task:", "cvep",
                           "} {run:", "f", "f", "} {participant:", "01",
                           "} {session:", "02", "}\n">>

\* the client is Configured: a "filename" line was sent, no "start" line
\* yet, and the connection is open
Configured ==
    /\ sock = "open"
    /\ "filename" \in {Kinds[k] : k \in 1..Len(sent)}
    /\ "start" \notin {Kinds[k] : k \in 1..Len(sent)}

\* the step is a call of update() that returned
UpdateReturned ==
    /\ lastCall' # lastCall
    /\ lastCall'.op = "update"
    /\ lastCall'.ret = "0"

\* C20: update is idempotent while Configured: each call sends exactly the
\* line "update\n" and leaves the client Configured, with the socket as it
\* was, so that any number of calls leaves the client as one call does and
\* a start that follows is sent
C20_UpdateIdempotent ==
    [][UpdateReturned =>
          /\ sent' = Append(sent, <<"update\n">>)
          /\ sock' = sock
          /\ Configured => Configured'
      ]_vars

\* two calls of update() while Configured, then start()
C20_Witness ==
    /\ Free
    /\ Kinds = <<"filename", "update", "update", "start">>
    /\ lastCall.op = "start"
    /\ lastCall.ret = "0"
    /\ sock = "open"

----------------------------------------------------------------------------
(* Properties of experiment.py *)

LineKinds == {Kinds[k] : k \in 1..Len(sent)}

RecorderFailed == lastCall.op # "none" /\ lastCall.ret \in {"OSError", "TypeError"}

GivenMarkers ==
    (IF start_marker = None THEN << >> ELSE <<Sample(start_marker)>>)
      \o (IF stop_marker = None THEN << >> ELSE <<Sample(stop_marker)>>)

\* the samples pushed since the entry of the call, in the order pushed
PushedSamples == [k \in 1..Len(outlet) |-> outlet[k].sample]

\* C25: log() pushes nothing for a marker that is None: a run without
\* markers pushes no sample and binds nothing to a commit, from its entry
\* to its return, and a completed run with one of the two markers has
\* pushed that one sample and nothing else
C25_NoneMarkerSilent ==
    /\ (pc \in {"head", "draw", "stop", "restore", "done"}
          /\ start_marker = None)
         => (toCall = << >> /\ StartPushes = {})
    /\ (pc \in {"head", "draw", "stop", "restore", "done"}
          /\ stop_marker = None)
         => StopPushes = {}
    /\ (pc \in {"head", "draw", "stop", "restore", "done"}
          /\ start_marker = None /\ stop_marker = None)
         => (outlet = << >> /\ toCall = << >>)
    /\ (pc = "done" /\ (start_marker = None \/ stop_marker = None))
         => (PushedSamples = GivenMarkers /\ toCall = << >>)

\* a run of six frames without markers has completed
C25_Witness ==
    /\ pc = "done"
    /\ start_marker = None
    /\ stop_marker = None
    /\ nPres = 6
    /\ nFinal = 1
    /\ outlet = << >>

\* the states in which the commit on the screen shows the key a
ShownStates(a) ==
    {front.content[k][2] : k \in {m \in 1..Len(front.content) :
                                     front.content[m][1] = a}}

\* the number of stimuli of the key a in the commit on the screen
ShownTimes(a) ==
    Cardinality({m \in 1..Len(front.content) : front.content[m][1] = a})

CodesNames == {codes[k].name : k \in 1..Len(codes)}

\* C26: a presentation commit of run() shows each symbol of codes once,
\* in the state its code selects for the frame, without its state 0 drawn
\* below it, and shows no registered key that codes leaves out; the final
\* commit of the run shows such a key again, in state 0
C26_OneStatePerSymbol ==
    /\ front.kind = "frame" =>
          /\ \A k \in 1..Len(codes) :
                /\ ShownTimes(codes[k].name) = 1
                /\ ShownStates(codes[k].name) =
                     {PyIndex(CodeState(codes[k].code, front.frame),
                              Len(keys[codes[k].name].images))}
          /\ \A a \in DOMAIN keys \ CodesNames : ShownTimes(a) = 0
    /\ (pc = "done" /\ front.kind = "final") =>
          \A a \in DOMAIN keys \ CodesNames :
              ShownTimes(a) = 1 /\ ShownStates(a) = {0}

\* the key B alone is presented in its third state, the key A is
\* registered and not on the screen
C26_Witness ==
    /\ pc = "head"
    /\ i = 3
    /\ DOMAIN keys = {"A", "B"}
    /\ codes = <<[name |-> "B", code |-> <<2>>]>>
    /\ front = [kind |-> "frame", frame |-> 2, content |-> <<<<"B", 2>>>>]

\* a call of run() is between its entry and its return
Running == pc \in {"head", "draw", "stop", "restore"}

\* the recording is on: "start" was sent and start() has returned, and
\* stop() has not been called
Recording ==
    /\ lastCall.op = "start"
    /\ lastCall.ret = "0"
    /\ "start" \in LineKinds
    /\ "stop" \notin LineKinds

====
